---- MODULE Spec2Model ----
(***************************************************************************)
(* A model of roon-extension-mpris (src/src/index.js): the zone registry   *)
(* fed by the Roon transport subscription, the selection of the one zone   *)
(* that is exposed over MPRIS, its projection onto the MPRIS player        *)
(* properties, the extrapolated playback position, the album art cache     *)
(* and the routing of MPRIS control events to transport calls.             *)
(*                                                                         *)
(* Conventions.  A JavaScript value that the code only tests for           *)
(* truthiness is modelled by a sentinel: Null for an absent id or object   *)
(* reference, "" for an absent text, Undefined for an absent number,       *)
(* NullZone for a null zone reference, NoPath for an absent path.          *)
(* Seconds-valued quantities (seek positions, lengths) are fixed-point     *)
(* integers counting units of 1/SubMicro microsecond, so that              *)
(* Math.floor(seconds * 1_000_000) is the division by SubMicro.            *)
(* The clock (Date.now()) counts TickMillis-millisecond ticks.             *)
(***************************************************************************)
EXTENDS Integers, Sequences, FiniteSets, TLC

VARIABLES
    world,                \* which inputs the environment supplies (see Worlds)
    pref,                 \* ZONE_PREFERENCE (fixed at start-up)
    activeCore,           \* TRUE iff activeCore is non-null
    transport,            \* TRUE iff transport is non-null
    imageSvc,             \* TRUE iff imageSvc is non-null
    zones,                \* the registry, in Object.values order
    activeZoneId,
    activeZone,           \* the cached reference, by value
    detached,             \* activeZone is an object no longer held by zones
    lastSeekSeconds,
    lastSeekUpdate,
    activeLengthSeconds,
    lastKnownZoneState,
    player,               \* the MPRIS properties the code assigns
    keyToFilePath,        \* the Map of resolved art files
    files,                \* the art files present on disk
    getImagePending,      \* outstanding imageSvc.get_image calls, per key
    writePending,         \* outstanding fs.writeFile calls, per <<key, ext>>
    resultsPending,       \* outstanding transport.control/seek callbacks
    now,                  \* Date.now(), in ticks
    feed,                 \* the zone subscription: "off", "pending" or "live"
    ev,                   \* history: the event handled by the last step
    pre,                  \* history: what the last step started from
    calls,                \* history: transport calls made by the last step
    seeked,               \* history: player.seeked values of the last step
    requested,            \* history: get_image keys requested by the last step
    selRuns,              \* history: activeZoneId at each selection of the last step
    threw                 \* history: the last handler threw a TypeError

vars == <<world, pref, activeCore, transport, imageSvc, zones, activeZoneId, activeZone,
          detached, lastSeekSeconds, lastSeekUpdate, activeLengthSeconds,
          lastKnownZoneState, player, keyToFilePath, files, getImagePending,
          writePending, resultsPending, now, feed, ev, pre, calls, seeked, requested,
          selRuns, threw>>

----------------------------------------------------------------------------
(* Bounds of the model *)

MaxTicks == 2          \* the clock stops after this many ticks
MaxInFlight == 2       \* art fetches (get_image + writeFile) in flight
MaxPending == 1        \* transport callbacks awaited
SubMicro == 2          \* fixed-point units per microsecond
TickMillis == 1500     \* milliseconds per clock tick

(* Numbers of the program *)

MicrosPerSecond == 1000000
MillisPerSecond == 1000

UnitsPerSecond == SubMicro * MicrosPerSecond
UnitsPerMilli == UnitsPerSecond \div MillisPerSecond

----------------------------------------------------------------------------
(* Sentinels *)

Null == "null"
Undefined == -1
NoPath == <<>>
NoArt == <<>>
NullZone == [null |-> TRUE]
NoLines == [line1 |-> "", line2 |-> "", line3 |-> ""]
NoSettings == [absent |-> TRUE]

Min(a, b) == IF a <= b THEN a ELSE b
Max(a, b) == IF a >= b THEN a ELSE b

----------------------------------------------------------------------------
(* The inputs: zones as the Roon core reports them *)

ZoneIds == {"z1", "z2"}
ImageKeys == {"k1"}
Exts == {"jpg", "png"}
Prefs == {"", "DEN", "Z2", "O1", "desk"}

\* The inputs are explored in three families rather than in their product:
\*   "registry": any zone preference, two zones in two states each, the core
\*               may re-add a zone it has already reported; no album art,
\*               no seek updates, a frozen clock;
\*   "art":      no preference, a zone with album art and a zone without;
\*               no seek updates, a frozen clock;
\*   "clock":    no preference, a running clock and seek updates; no art.
Worlds == {"registry", "art", "clock"}

VariantsOf(id) ==
    CASE world = "registry" ->
            IF id = "z1" THEN {"playing", "paused"} ELSE {"playing", "stopped"}
      [] world = "art" ->
            IF id = "z1" THEN {"playing"} ELSE {"stopped"}
      [] OTHER ->
            IF id = "z1" THEN {"playing", "paused"} ELSE {"stopped"}

\* every transport verb in the "registry" family, one verb in the others
Verbs ==
    IF world = "registry"
    THEN {"play", "pause", "playpause", "stop", "next", "previous"}
    ELSE {"playpause"}

ToLowerCase(s) ==
    CASE s \in {"DEN", "Den"} -> "den"
      [] s = "Hall" -> "hall"
      [] s = "Z2" -> "z2"
      [] s = "O1" -> "o1"
      [] s = "Desk" -> "desk"
      [] s = "Sofa" -> "sofa"
      [] OTHER -> s

EmptyNowPlaying ==
    [title |-> "", artist |-> "", artist_line |-> "", album |-> "",
     three_line |-> NoLines, two_line |-> NoLines, one_line |-> NoLines,
     length |-> Undefined, seek_position |-> Undefined, image_key |-> ""]

Track(seek, key) ==
    [EmptyNowPlaying EXCEPT
        !.three_line = [line1 |-> "Song", line2 |-> "Band", line3 |-> "Disc"],
        !.length = 3 * UnitsPerSecond,
        !.seek_position = seek,
        !.image_key = key]

DisplayNameOf(id) == IF id = "z1" THEN "Den" ELSE "Hall"

OutputsOf(id) ==
    IF id = "z1" THEN <<[output_id |-> "o1", display_name |-> "Sofa"]>>
    ELSE <<[output_id |-> "o2", display_name |-> "Desk"]>>

Zone(id, variant, key) ==
    [zone_id |-> id,
     display_name |-> DisplayNameOf(id),
     outputs |-> OutputsOf(id),
     state |-> variant,
     is_play_allowed |-> variant = "paused",
     is_pause_allowed |-> variant = "playing",
     is_seek_allowed |-> variant # "stopped",
     is_next_allowed |-> variant # "stopped",
     is_previous_allowed |-> variant = "playing",
     settings |-> IF variant = "stopped" THEN NoSettings
                  ELSE [shuffle |-> variant = "playing", loop |-> "loop"],
     now_playing |->
        CASE variant = "stopped" -> EmptyNowPlaying
          [] variant = "playing" ->
                Track(IF world = "clock" THEN UnitsPerSecond
                      ELSE UnitsPerSecond + 1, key)
          [] variant = "paused" -> Track(2 * UnitsPerSecond, key)
          [] OTHER -> Track(Undefined, ""),
     queue_time_remaining |-> Undefined]

ZonesOf(id) ==
    {Zone(id, v, IF world = "art" /\ id = "z1" THEN "k1" ELSE "") : v \in VariantsOf(id)}

ZoneValues == UNION {ZonesOf(id) : id \in ZoneIds}

----------------------------------------------------------------------------
(* The registry: a JavaScript object keyed by zone id.  Object.values lists *)
(* the entries in insertion order; overwriting a key keeps its place and    *)
(* deleting then re-adding a key moves it to the end.                       *)

Range(seq) == {seq[i] : i \in 1..Len(seq)}

Ids(zs) == {zs[i].zone_id : i \in 1..Len(zs)}

Has(zs, id) == id \in Ids(zs)

Get(zs, id) == zs[CHOOSE i \in 1..Len(zs) : zs[i].zone_id = id]

Put(zs, zone) ==
    IF Has(zs, zone.zone_id)
    THEN [i \in 1..Len(zs) |-> IF zs[i].zone_id = zone.zone_id THEN zone ELSE zs[i]]
    ELSE Append(zs, zone)

Delete(zs, id) == SelectSeq(zs, LAMBDA z : z.zone_id # id)

\* Array.prototype.find: the first element satisfying Test, or NullZone
Find(zs, Test(_)) ==
    IF \E i \in 1..Len(zs) : Test(zs[i])
    THEN zs[CHOOSE i \in 1..Len(zs) :
                Test(zs[i]) /\ \A j \in 1..(i - 1) : ~Test(zs[j])]
    ELSE NullZone

----------------------------------------------------------------------------
(* Pure helpers of the program *)

normaliseNumber(value) == IF value = Undefined THEN Undefined ELSE value

IsNumber(v) == v # Undefined

mapPlaybackStatus(state) ==
    CASE ToLowerCase(state) = "playing" -> "Playing"
      [] ToLowerCase(state) = "paused" -> "Paused"
      [] ToLowerCase(state) = "loading" -> "Playing"
      [] OTHER -> "Stopped"

mapLoopStatus(loop) ==
    CASE ToLowerCase(loop) = "loop_one" -> "Track"
      [] ToLowerCase(loop) = "loop" -> "Playlist"
      [] OTHER -> "None"

hasSeekInfo(zone) == IsNumber(normaliseNumber(zone.now_playing.seek_position))

extractLine(line, key) ==
    IF line[key] # "" THEN line[key]
    ELSE IF line.line1 # "" THEN line.line1
    ELSE IF line.line2 # "" THEN line.line2
    ELSE line.line3

extractText(value) == value

RECURSIVE pickText(_)
pickText(values) ==
    IF values = <<>> THEN ""
    ELSE IF extractText(Head(values)) # "" THEN extractText(Head(values))
    ELSE pickText(Tail(values))

matchesZonePreference(zone, p) ==
    /\ p # ""
    /\ zone # NullZone
    /\ \/ zone.zone_id # "" /\ ToLowerCase(zone.zone_id) = ToLowerCase(p)
       \/ zone.display_name # "" /\ ToLowerCase(zone.display_name) = ToLowerCase(p)
       \/ \E i \in 1..Len(zone.outputs) :
            \/ zone.outputs[i].output_id # ""
               /\ ToLowerCase(zone.outputs[i].output_id) = ToLowerCase(p)
            \/ zone.outputs[i].display_name # ""
               /\ ToLowerCase(zone.outputs[i].display_name) = ToLowerCase(p)

\* mutant: a playing zone is preferred to the configured zone
pickPreferredZone_PlayingFirst(zoneCandidates, p) ==
    LET matched == Find(zoneCandidates, LAMBDA z : matchesZonePreference(z, p))
        playingZone == Find(zoneCandidates, LAMBDA z : z.state = "playing")
    IN  IF playingZone # NullZone THEN playingZone
        ELSE IF p # "" /\ matched # NullZone THEN matched
        ELSE NullZone

pickPreferredZone(zoneCandidates, p) ==
    LET matched == Find(zoneCandidates, LAMBDA z : matchesZonePreference(z, p))
        playingZone == Find(zoneCandidates, LAMBDA z : z.state = "playing")
    IN  IF p # "" /\ matched # NullZone THEN matched
        ELSE IF playingZone # NullZone THEN playingZone
        ELSE NullZone

ObjectPath(kind, name) == <<"/org/node/mediaplayer/roon", kind, name>>

DefaultTrackId == ObjectPath("track", "0")

ZoneTrackId(id) == ObjectPath("zone", id)

keyToFilename(key) == key

FilePath(key, ext) == <<keyToFilename(key), ext>>

FileUrl(path) == <<"file://">> \o path

IdleMetadata ==
    [trackid |-> DefaultTrackId, title |-> "Roon", album |-> "-",
     artist |-> <<"-">>, length |-> Undefined, artUrl |-> NoArt]

----------------------------------------------------------------------------
(* The synchronous code of a handler is a composition of functions on a     *)
(* record S of the mutable program state, extended by what the handler      *)
(* sends out: player.seeked values, get_image requests, transport calls,    *)
(* and the art URLs of cache hits, whose .then callbacks run as microtasks  *)
(* once the handler has returned.                                           *)

Cur ==
    [activeCore |-> activeCore, transport |-> transport, zones |-> zones,
     activeZoneId |-> activeZoneId, activeZone |-> activeZone,
     detached |-> detached, lastSeekSeconds |-> lastSeekSeconds,
     lastSeekUpdate |-> lastSeekUpdate,
     activeLengthSeconds |-> activeLengthSeconds,
     lastKnownZoneState |-> lastKnownZoneState, player |-> player,
     seeked |-> <<>>, requested |-> <<>>, thens |-> <<>>, calls |-> <<>>,
     selRuns |-> <<>>, threw |-> FALSE]

updateCapabilities(S, zone) ==
    [S EXCEPT
        !.player.canControl = TRUE,
        !.player.canPlay = zone.is_play_allowed
                           \/ zone.state \in {"playing", "paused", "loading"},
        !.player.canPause = zone.is_pause_allowed,
        !.player.canSeek = zone.is_seek_allowed /\ hasSeekInfo(zone),
        !.player.canGoNext = zone.is_next_allowed,
        !.player.canGoPrevious = zone.is_previous_allowed,
        !.player.shuffle = IF zone.settings # NoSettings
                           THEN zone.settings.shuffle ELSE FALSE,
        !.player.loopStatus = IF zone.settings # NoSettings
                              THEN mapLoopStatus(zone.settings.loop) ELSE "None"]

\* resolveArtFile up to its first await: nothing without an image service or
\* a key, a cache hit when the recorded file still exists, else one get_image
resolveArtFile(S, imageKey) ==
    IF ~imageSvc \/ imageKey = "" THEN S
    ELSE IF keyToFilePath[imageKey] # NoPath /\ keyToFilePath[imageKey] \in files
    THEN [S EXCEPT !.thens = Append(@, FileUrl(keyToFilePath[imageKey]))]
    ELSE [S EXCEPT !.requested = Append(@, imageKey)]

updateMetadata(S, zone) ==
    LET nowPlaying == zone.now_playing
        length == normaliseNumber(nowPlaying.length)
        title == pickText(<<nowPlaying.title,
                            extractLine(nowPlaying.three_line, "line1"),
                            extractLine(nowPlaying.two_line, "line2"),
                            extractLine(nowPlaying.one_line, "line1")>>)
        artist == pickText(<<nowPlaying.artist, nowPlaying.artist_line,
                             extractLine(nowPlaying.three_line, "line2"),
                             extractLine(nowPlaying.two_line, "line1")>>)
        album == pickText(<<nowPlaying.album,
                            extractLine(nowPlaying.three_line, "line3")>>)
        metadata ==
            [trackid |-> ZoneTrackId(zone.zone_id),
             length |-> IF IsNumber(length) THEN length \div SubMicro ELSE Undefined,
             title |-> IF title # "" THEN title
                       ELSE IF zone.display_name # "" THEN zone.display_name
                       ELSE "Roon",
             artist |-> <<IF artist # "" THEN artist ELSE "Roon">>,
             album |-> IF album # "" THEN album ELSE "-",
             artUrl |-> NoArt]
        S1 == IF nowPlaying.image_key # ""
              THEN resolveArtFile(S, nowPlaying.image_key) ELSE S
    IN  [S1 EXCEPT !.player.metadata = metadata]

updatePlaybackState(S, zone) ==
    [S EXCEPT
        !.lastKnownZoneState = IF zone.state # "" THEN zone.state ELSE "stopped",
        !.player.playbackStatus = mapPlaybackStatus(zone.state)]

updateSeekState(S, zone) ==
    LET nowPlaying == zone.now_playing
        position == normaliseNumber(nowPlaying.seek_position)
        length == normaliseNumber(nowPlaying.length)
    IN  [S EXCEPT
            !.lastSeekSeconds = IF IsNumber(position) THEN position ELSE 0,
            !.lastSeekUpdate = now,
            !.activeLengthSeconds = IF IsNumber(length) THEN length ELSE Undefined]

updateFromActiveZone(S, zone) ==
    IF zone = NullZone THEN S
    ELSE updateSeekState(
             updatePlaybackState(
                 updateMetadata(
                     updateCapabilities(S, zone), zone), zone), zone)

activateZone(S, zone) ==
    IF zone = NullZone
    THEN [S EXCEPT
            !.activeZoneId = Null,
            !.activeZone = NullZone,
            !.detached = FALSE,
            !.lastKnownZoneState = "stopped",
            !.lastSeekSeconds = 0,
            !.activeLengthSeconds = Undefined,
            !.player = [metadata |-> IdleMetadata,
                        playbackStatus |-> "Stopped",
                        canControl |-> S.transport,
                        canPlay |-> FALSE, canPause |-> FALSE, canSeek |-> FALSE,
                        canGoNext |-> FALSE, canGoPrevious |-> FALSE,
                        shuffle |-> FALSE, loopStatus |-> "None"]]
    ELSE updateFromActiveZone(
             [S EXCEPT !.activeZoneId = zone.zone_id,
                       !.activeZone = zone,
                       !.detached = FALSE],
             zone)

selectAndActivateZone(S) ==
    LET zoneCandidates == S.zones
        preferred == pickPreferredZone(zoneCandidates, pref)
        S0 == [S EXCEPT !.selRuns = Append(@, S.activeZoneId)]
    IN  IF zoneCandidates = <<>> THEN activateZone(S0, NullZone)
        ELSE IF preferred # NullZone THEN activateZone(S0, preferred)
        ELSE IF S.activeZoneId # Null /\ Has(S.zones, S.activeZoneId)
        THEN activateZone(S0, Get(S.zones, S.activeZoneId))
        ELSE activateZone(S0, zoneCandidates[1])

ensureActiveZone(S) ==
    IF S.activeZone # NullZone THEN S ELSE selectAndActivateZone(S)

----------------------------------------------------------------------------
(* The four loops of onZonesChanged *)

\* mutant: a removed zone stays the active one
RECURSIVE removeZones_KeepActive(_, _)
removeZones_KeepActive(S, zoneIds) ==
    IF zoneIds = <<>> THEN S
    ELSE removeZones_KeepActive([S EXCEPT !.zones = Delete(@, Head(zoneIds))],
                                Tail(zoneIds))

RECURSIVE removeZones(_, _)
removeZones(S, zoneIds) ==
    IF zoneIds = <<>> THEN S
    ELSE LET zoneId == Head(zoneIds)
             S1 == [S EXCEPT !.zones = Delete(@, zoneId)]
             S2 == IF S1.activeZoneId = zoneId THEN activateZone(S1, NullZone)
                   ELSE S1
         IN  removeZones(S2, Tail(zoneIds))

\* zones[zone.zone_id] = zone: when the id is the active one the registry now
\* holds another object than the one activeZone refers to
RECURSIVE addZones(_, _)
addZones(S, added) ==
    IF added = <<>> THEN S
    ELSE LET zone == Head(added)
             S1 == [S EXCEPT !.zones = Put(@, zone),
                             !.detached = @ \/ zone.zone_id = S.activeZoneId]
         IN  addZones(S1, Tail(added))

RECURSIVE changeZones(_, _)
changeZones(S, changed) ==
    IF changed = <<>> THEN S
    ELSE LET zone == Head(changed)
             S1 == [S EXCEPT !.zones = Put(@, zone)]
             S2 == IF zone.zone_id = S1.activeZoneId THEN activateZone(S1, zone)
                   ELSE S1
         IN  changeZones(S2, Tail(changed))

\* mutant: a seek update of any known zone moves the anchor
RECURSIVE seekZones_AnyZone(_, _)
seekZones_AnyZone(S, seekChanged) ==
    IF seekChanged = <<>> THEN S
    ELSE LET seekUpdate == Head(seekChanged)
         IN  IF ~Has(S.zones, seekUpdate.zone_id)
             THEN seekZones_AnyZone(S, Tail(seekChanged))
             ELSE
             LET old == Get(S.zones, seekUpdate.zone_id)
                 zone == [old EXCEPT
                            !.now_playing.seek_position = seekUpdate.seek_position,
                            !.queue_time_remaining = seekUpdate.queue_time_remaining]
                 S1 == [S EXCEPT !.zones = Put(@, zone)]
                 S2 == [updateSeekState(S1, zone) EXCEPT
                          !.seeked = Append(@,
                              (IF IsNumber(seekUpdate.seek_position)
                               THEN seekUpdate.seek_position ELSE 0)
                              \div SubMicro)]
             IN  seekZones_AnyZone(S2, Tail(seekChanged))

\* the registry's object is patched in place, so activeZone sees the patch
\* exactly when it refers to that object
RECURSIVE seekZones(_, _)
seekZones(S, seekChanged) ==
    IF seekChanged = <<>> THEN S
    ELSE LET seekUpdate == Head(seekChanged)
         IN  IF ~Has(S.zones, seekUpdate.zone_id)
             THEN seekZones(S, Tail(seekChanged))
             ELSE
             LET old == Get(S.zones, seekUpdate.zone_id)
                 zone == [old EXCEPT
                            !.now_playing.seek_position = seekUpdate.seek_position,
                            !.queue_time_remaining = seekUpdate.queue_time_remaining]
                 isActive == seekUpdate.zone_id = S.activeZoneId
                 S1 == [S EXCEPT
                          !.zones = Put(@, zone),
                          !.activeZone = IF isActive /\ ~S.detached THEN zone ELSE @]
                 S2 == IF isActive
                       THEN [updateSeekState(S1, zone) EXCEPT
                               !.seeked = Append(@,
                                   (IF IsNumber(seekUpdate.seek_position)
                                    THEN seekUpdate.seek_position ELSE 0)
                                   \div SubMicro)]
                       ELSE S1
             IN  seekZones(S2, Tail(seekChanged))

\* mutant: selection runs after every change-set
onZonesChanged_AlwaysSelect(S, changeSet) ==
    selectAndActivateZone(
        seekZones(
            changeZones(
                addZones(removeZones(S, changeSet.zones_removed),
                         changeSet.zones_added),
                changeSet.zones_changed),
            changeSet.zones_seek_changed))

\* mutant: no selection at the end of a change-set
onZonesChanged_NoReselect(S, changeSet) ==
    seekZones(
        changeZones(
            addZones(removeZones(S, changeSet.zones_removed),
                     changeSet.zones_added),
            changeSet.zones_changed),
        changeSet.zones_seek_changed)

\* mutant: additions are applied before removals
onZonesChanged_AddFirst(S, changeSet) ==
    LET S1 == addZones(S, changeSet.zones_added)
        S2 == removeZones(S1, changeSet.zones_removed)
        S3 == changeZones(S2, changeSet.zones_changed)
        S4 == seekZones(S3, changeSet.zones_seek_changed)
    IN  IF S4.activeZoneId = Null THEN selectAndActivateZone(S4) ELSE S4

onZonesChanged(S, changeSet) ==
    LET S1 == removeZones(S, changeSet.zones_removed)
        S2 == addZones(S1, changeSet.zones_added)
        S3 == changeZones(S2, changeSet.zones_changed)
        S4 == seekZones(S3, changeSet.zones_seek_changed)
    IN  IF S4.activeZoneId = Null THEN selectAndActivateZone(S4) ELSE S4

RECURSIVE reduceZones(_, _)
reduceZones(acc, zoneList) ==
    IF zoneList = <<>> THEN acc
    ELSE reduceZones(Put(acc, Head(zoneList)), Tail(zoneList))

\* mutant: the snapshot is stored and no zone is selected
onZonesSubscribed_NoSelect(S, zoneList) ==
    [S EXCEPT !.zones = reduceZones(<<>>, zoneList)]

onZonesSubscribed(S, zoneList) ==
    selectAndActivateZone([S EXCEPT !.zones = reduceZones(<<>>, zoneList)])

\* mutant: the registry is emptied and the active zone is kept
onUnsubscribed_KeepActive(S) == [S EXCEPT !.zones = <<>>]

onUnsubscribed(S) == activateZone([S EXCEPT !.zones = <<>>], NullZone)

onCoreUnpaired(S) ==
    activateZone([S EXCEPT !.activeCore = FALSE, !.transport = FALSE,
                           !.zones = <<>>], NullZone)

----------------------------------------------------------------------------
(* The control handlers *)

ControlCall(zone, control) ==
    [op |-> "control", zone_id |-> zone.zone_id, control |-> control, seconds |-> 0]

SeekCall(zone, how, seconds) ==
    [op |-> "seek", zone_id |-> zone.zone_id, control |-> how, seconds |-> seconds]

\* mutant: playpause is sent as play
sendTransportCommand_PlayForPlayPause(S, control) ==
    LET S1 == ensureActiveZone(S)
        zone == S1.activeZone
    IN  IF zone = NullZone \/ ~S1.transport THEN S1
        ELSE [S1 EXCEPT !.calls = Append(@,
                 ControlCall(zone, IF control = "playpause" THEN "play" ELSE control))]

sendTransportCommand(S, control) ==
    LET S1 == ensureActiveZone(S)
        zone == S1.activeZone
    IN  IF zone = NullZone THEN S1
        ELSE IF ~S1.transport THEN S1
        ELSE [S1 EXCEPT !.calls = Append(@, ControlCall(zone, control))]

\* transport.seek on a null transport is a TypeError
transportSeek(S, zone, how, seconds) ==
    IF ~S.transport THEN [S EXCEPT !.threw = TRUE]
    ELSE [S EXCEPT !.calls = Append(@, SeekCall(zone, how, seconds))]

onSeek(S, offset) ==
    LET S1 == ensureActiveZone(S)
        zone == S1.activeZone
    IN  IF zone = NullZone THEN S1
        ELSE transportSeek(S1, zone, "relative", offset * SubMicro)

onPosition(S, event) ==
    LET S1 == ensureActiveZone(S)
        zone == S1.activeZone
    IN  IF zone = NullZone THEN S1
        ELSE IF event.trackId # <<>> /\ event.trackId # S1.player.metadata.trackid
        THEN S1
        ELSE transportSeek(S1, zone, "absolute", event.position * SubMicro)

\* mutant: the position is not clamped to the length
getPosition_Unclamped ==
    IF activeZone = NullZone THEN 0
    ELSE LET elapsed == IF lastKnownZoneState = "playing"
                        THEN (now - lastSeekUpdate) * TickMillis * UnitsPerMilli
                        ELSE 0
         IN  Max(0, (lastSeekSeconds + elapsed) \div SubMicro)

\* mutant: the position advances whatever the zone's state
getPosition_AlwaysAdvancing ==
    IF activeZone = NullZone THEN 0
    ELSE LET seconds == lastSeekSeconds
                        + (now - lastSeekUpdate) * TickMillis * UnitsPerMilli
             clamped == IF IsNumber(activeLengthSeconds)
                        THEN Min(seconds, activeLengthSeconds) ELSE seconds
         IN  Max(0, clamped \div SubMicro)

getPosition ==
    IF activeZone = NullZone THEN 0
    ELSE LET elapsed == IF lastKnownZoneState = "playing"
                        THEN (now - lastSeekUpdate) * TickMillis * UnitsPerMilli
                        ELSE 0
             seconds == lastSeekSeconds + elapsed
             clamped == IF IsNumber(activeLengthSeconds)
                        THEN Min(seconds, activeLengthSeconds) ELSE seconds
         IN  Max(0, clamped \div SubMicro)

----------------------------------------------------------------------------
(* Inputs of the handlers *)

ZoneLists == {<<>>} \cup {<<z>> : z \in ZoneValues}

Snapshots ==
    ZoneLists \cup {l \in ZoneValues \X ZoneValues : l[1].zone_id # l[2].zone_id}

RemovedLists == {<<>>} \cup {<<id>> : id \in ZoneIds}

SeekPositions == {Undefined, 4 * UnitsPerSecond + 1}

SeekUpdate(id, p) ==
    [zone_id |-> id, seek_position |-> p,
     queue_time_remaining |-> IF p = Undefined THEN Undefined ELSE 7]

SeekUpdates ==
    IF world = "clock"
    THEN {SeekUpdate("z1", p) : p \in SeekPositions}
         \cup {SeekUpdate("z2", 4 * UnitsPerSecond)}
    ELSE {}

SeekLists == {<<>>} \cup {<<u>> : u \in SeekUpdates}

\* Change-sets with at most two kinds of sub-event, each of at most one
\* element: every single sub-event, a removal with any other sub-event, and
\* an addition with a seek update.
ChangeSets ==
    {c \in [zones_removed : RemovedLists, zones_added : ZoneLists,
            zones_changed : ZoneLists, zones_seek_changed : SeekLists] :
        LET r == c.zones_removed # <<>>
            a == c.zones_added # <<>>
            g == c.zones_changed # <<>>
            k == c.zones_seek_changed # <<>>
        IN  \/ ~a /\ ~(g /\ k)
            \/ a /\ ~r /\ ~g
            \/ a /\ r /\ ~g /\ ~k}

TrackIds == {ZoneTrackId(id) : id \in ZoneIds}

Offsets == {1500000}

PositionEvents == [trackId : TrackIds, position : {2500000}]

ContentTypes == {"image/jpeg", "image/png"}

ExtOf(contentType) == IF contentType = "image/png" THEN "png" ELSE "jpg"

Count(seq, x) == Cardinality({i \in 1..Len(seq) : seq[i] = x})

RECURSIVE Sum(_, _)
Sum(f, S) ==
    IF S = {} THEN 0
    ELSE LET x == CHOOSE y \in S : TRUE IN f[x] + Sum(f, S \ {x})

InFlight(g, w) == Sum(g, DOMAIN g) + Sum(w, DOMAIN w)

----------------------------------------------------------------------------
(* Committing a handler: its state, its outputs, and then the microtasks:  *)
(* each cache hit's .then callback copies player.metadata and sets artUrl. *)

Event(kind, arg) == [kind |-> kind, arg |-> arg]

Before == [activeZoneId |-> activeZoneId]

Commit(S, e) ==
    /\ activeCore' = S.activeCore
    /\ transport' = S.transport
    /\ zones' = S.zones
    /\ activeZoneId' = S.activeZoneId
    /\ activeZone' = S.activeZone
    /\ detached' = S.detached
    /\ lastSeekSeconds' = S.lastSeekSeconds
    /\ lastSeekUpdate' = S.lastSeekUpdate
    /\ activeLengthSeconds' = S.activeLengthSeconds
    /\ lastKnownZoneState' = S.lastKnownZoneState
    /\ player' = IF S.thens = <<>> THEN S.player
                 ELSE [S.player EXCEPT !.metadata.artUrl = S.thens[Len(S.thens)]]
    /\ getImagePending' =
          [k \in ImageKeys |-> getImagePending[k] + Count(S.requested, k)]
    /\ InFlight(getImagePending', writePending) <= MaxInFlight
    /\ resultsPending' = resultsPending + Len(S.calls)
    /\ resultsPending' <= MaxPending
    /\ ev' = e
    /\ pre' = Before
    /\ calls' = S.calls
    /\ seeked' = S.seeked
    /\ requested' = S.requested
    /\ selRuns' = S.selRuns
    /\ threw' = S.threw
    /\ UNCHANGED <<world, pref, imageSvc, keyToFilePath, files, writePending, now>>

\* a handler that leaves the subscription as it is
Handle(S, e) == Commit(S, e) /\ UNCHANGED feed

----------------------------------------------------------------------------
(* The state after the module has been loaded *)

Init ==
    /\ world \in Worlds
    /\ pref \in IF world = "registry" THEN Prefs ELSE {""}
    /\ activeCore = FALSE
    /\ transport = FALSE
    /\ imageSvc = FALSE
    /\ zones = <<>>
    /\ activeZoneId = Null
    /\ activeZone = NullZone
    /\ detached = FALSE
    /\ lastSeekSeconds = 0
    /\ lastSeekUpdate = 0
    /\ activeLengthSeconds = Undefined
    /\ lastKnownZoneState = "stopped"
    /\ player = [metadata |-> IdleMetadata, playbackStatus |-> "Stopped",
                 canControl |-> FALSE, canPlay |-> FALSE, canPause |-> FALSE,
                 canSeek |-> FALSE, canGoNext |-> FALSE, canGoPrevious |-> FALSE,
                 shuffle |-> FALSE, loopStatus |-> "None"]
    /\ keyToFilePath = [k \in ImageKeys |-> NoPath]
    /\ files = {}
    /\ getImagePending = [k \in ImageKeys |-> 0]
    /\ writePending = [f \in ImageKeys \X Exts |-> 0]
    /\ resultsPending = 0
    /\ now = 0
    /\ feed = "off"
    /\ ev = Event("init", <<>>)
    /\ pre = [activeZoneId |-> Null]
    /\ calls = <<>>
    /\ seeked = <<>>
    /\ requested = <<>>
    /\ selRuns = <<>>
    /\ threw = FALSE

----------------------------------------------------------------------------
(* The Roon core: pairing, and the zone subscription's messages *)

CorePaired ==
    /\ ~activeCore
    /\ activeCore' = TRUE
    /\ transport' = TRUE
    /\ imageSvc' = TRUE
    /\ feed' = "pending"
    /\ ev' = Event("paired", <<>>)
    /\ pre' = Before
    /\ calls' = <<>> /\ seeked' = <<>> /\ requested' = <<>>
    /\ selRuns' = <<>> /\ threw' = FALSE
    /\ UNCHANGED <<world, pref, zones, activeZoneId, activeZone, detached, lastSeekSeconds,
                   lastSeekUpdate, activeLengthSeconds, lastKnownZoneState, player,
                   keyToFilePath, files, getImagePending, writePending,
                   resultsPending, now>>

CoreUnpaired ==
    /\ activeCore
    /\ feed' = "off"
    /\ Commit(onCoreUnpaired(Cur), Event("unpaired", <<>>))

\* the first message of the subscription
ZonesSubscribed ==
    /\ feed = "pending"
    /\ feed' = "live"
    /\ \E zoneList \in Snapshots :
          Commit(onZonesSubscribed(Cur, zoneList), Event("Subscribed", zoneList))

\* What the core sends: it removes and changes zones it has reported, and
\* adds zones it has not reported or has just removed; in the "registry"
\* family it may also add a zone again that it has already reported.
Plausible(changeSet) ==
    LET removed == Range(changeSet.zones_removed)
    IN  /\ removed \subseteq Ids(zones)
        /\ \A z \in Range(changeSet.zones_added) :
              \/ z.zone_id \notin Ids(zones)
              \/ z.zone_id \in removed
              \/ world = "registry"
        /\ \A z \in Range(changeSet.zones_changed) :
              z.zone_id \in Ids(zones) \ removed

ZonesChanged ==
    /\ feed = "live"
    /\ UNCHANGED feed
    /\ \E changeSet \in ChangeSets :
          /\ Plausible(changeSet)
          /\ Commit(onZonesChanged(Cur, changeSet), Event("Changed", changeSet))

ZonesUnsubscribed ==
    /\ feed = "live"
    /\ feed' = "off"
    /\ Commit(onUnsubscribed(Cur), Event("Unsubscribed", <<>>))

----------------------------------------------------------------------------
(* The MPRIS control events *)

Control ==
    \E control \in Verbs :
        Handle(sendTransportCommand(Cur, control), Event("control", control))

Seek ==
    \E offset \in Offsets :
        Handle(onSeek(Cur, offset), Event("seek", offset))

Position ==
    \E event \in PositionEvents :
        Handle(onPosition(Cur, event), Event("position", event))

\* the callback of handleTransportResult: it logs, and nothing else
TransportResult ==
    /\ resultsPending > 0
    /\ resultsPending' = resultsPending - 1
    /\ \E err \in BOOLEAN : ev' = Event("result", err)
    /\ pre' = Before
    /\ calls' = <<>> /\ seeked' = <<>> /\ requested' = <<>>
    /\ selRuns' = <<>> /\ threw' = FALSE
    /\ UNCHANGED <<world, pref, activeCore, transport, imageSvc, zones, activeZoneId,
                   activeZone, detached, lastSeekSeconds, lastSeekUpdate,
                   activeLengthSeconds, lastKnownZoneState, player, keyToFilePath,
                   files, getImagePending, writePending, now, feed>>

----------------------------------------------------------------------------
(* The art fetch of resolveArtFile after its await, as the callbacks arrive *)

Quiet(e) ==
    /\ ev' = e
    /\ pre' = Before
    /\ calls' = <<>> /\ seeked' = <<>> /\ requested' = <<>>
    /\ selRuns' = <<>> /\ threw' = FALSE

\* mutant: a failed fetch is recorded as if the file had been written
GetImageFailed_Cached ==
    \E k \in ImageKeys :
        /\ getImagePending[k] > 0
        /\ getImagePending' = [getImagePending EXCEPT ![k] = @ - 1]
        /\ keyToFilePath' = [keyToFilePath EXCEPT ![k] = FilePath(k, "jpg")]
        /\ Quiet(Event("get_image failed", k))
        /\ UNCHANGED <<world, pref, activeCore, transport, imageSvc, zones, activeZoneId,
                       activeZone, detached, lastSeekSeconds, lastSeekUpdate,
                       activeLengthSeconds, lastKnownZoneState, player,
                       files, writePending, resultsPending, now, feed>>

\* get_image calls back with an error: the promise rejects, null is returned
GetImageFailed ==
    \E k \in ImageKeys :
        /\ getImagePending[k] > 0
        /\ getImagePending' = [getImagePending EXCEPT ![k] = @ - 1]
        /\ Quiet(Event("get_image failed", k))
        /\ UNCHANGED <<world, pref, activeCore, transport, imageSvc, zones, activeZoneId,
                       activeZone, detached, lastSeekSeconds, lastSeekUpdate,
                       activeLengthSeconds, lastKnownZoneState, player,
                       keyToFilePath, files, writePending, resultsPending, now, feed>>

\* get_image calls back with the image: fs.writeFile is started
GetImageDone ==
    \E k \in ImageKeys, contentType \in ContentTypes :
        /\ getImagePending[k] > 0
        /\ getImagePending' = [getImagePending EXCEPT ![k] = @ - 1]
        /\ writePending' = [writePending EXCEPT ![<<k, ExtOf(contentType)>>] = @ + 1]
        /\ Quiet(Event("get_image done", <<k, contentType>>))
        /\ UNCHANGED <<world, pref, activeCore, transport, imageSvc, zones, activeZoneId,
                       activeZone, detached, lastSeekSeconds, lastSeekUpdate,
                       activeLengthSeconds, lastKnownZoneState, player,
                       keyToFilePath, files, resultsPending, now, feed>>

WriteFailed ==
    \E f \in ImageKeys \X Exts :
        /\ writePending[f] > 0
        /\ writePending' = [writePending EXCEPT ![f] = @ - 1]
        /\ Quiet(Event("write failed", f))
        /\ UNCHANGED <<world, pref, activeCore, transport, imageSvc, zones, activeZoneId,
                       activeZone, detached, lastSeekSeconds, lastSeekUpdate,
                       activeLengthSeconds, lastKnownZoneState, player,
                       keyToFilePath, files, getImagePending, resultsPending, now, feed>>

\* the file is written: the path is chosen and recorded, and the .then
\* callback of updateMetadata merges the URL into the current metadata
FinalPath(k, onDisk) ==
    FilePath(k, IF FilePath(k, "png") \in onDisk THEN "png" ELSE "jpg")

\* mutant: the URL is merged only while the active zone shows the image
WriteDone_IfCurrent ==
    \E f \in ImageKeys \X Exts :
        /\ writePending[f] > 0
        /\ writePending' = [writePending EXCEPT ![f] = @ - 1]
        /\ files' = files \cup {FilePath(f[1], f[2])}
        /\ keyToFilePath' = [keyToFilePath EXCEPT ![f[1]] = FinalPath(f[1], files')]
        /\ player' = IF activeZone # NullZone
                        /\ activeZone.now_playing.image_key = f[1]
                     THEN [player EXCEPT
                             !.metadata.artUrl = FileUrl(FinalPath(f[1], files'))]
                     ELSE player
        /\ Quiet(Event("write done", f))
        /\ UNCHANGED <<world, pref, activeCore, transport, imageSvc, zones, activeZoneId,
                       activeZone, detached, lastSeekSeconds, lastSeekUpdate,
                       activeLengthSeconds, lastKnownZoneState, getImagePending,
                       resultsPending, now, feed>>

WriteDone ==
    \E f \in ImageKeys \X Exts :
        /\ writePending[f] > 0
        /\ writePending' = [writePending EXCEPT ![f] = @ - 1]
        /\ files' = files \cup {FilePath(f[1], f[2])}
        /\ keyToFilePath' = [keyToFilePath EXCEPT ![f[1]] = FinalPath(f[1], files')]
        /\ player' = [player EXCEPT
                        !.metadata.artUrl = FileUrl(FinalPath(f[1], files'))]
        /\ Quiet(Event("write done", f))
        /\ UNCHANGED <<world, pref, activeCore, transport, imageSvc, zones, activeZoneId,
                       activeZone, detached, lastSeekSeconds, lastSeekUpdate,
                       activeLengthSeconds, lastKnownZoneState, getImagePending,
                       resultsPending, now, feed>>

\* the temporary directory is cleaned by something else
FileRemoved ==
    \E path \in files :
        /\ files' = files \ {path}
        /\ Quiet(Event("file removed", path))
        /\ UNCHANGED <<world, pref, activeCore, transport, imageSvc, zones, activeZoneId,
                       activeZone, detached, lastSeekSeconds, lastSeekUpdate,
                       activeLengthSeconds, lastKnownZoneState, player,
                       keyToFilePath, getImagePending, writePending,
                       resultsPending, now, feed>>

\* Date.now() advances by TickMillis; the event remembers the last handler
\* that ran and the number of ticks since
Tick ==
    /\ world = "clock"
    /\ now < MaxTicks
    /\ now' = now + 1
    /\ Quiet(Event("tick", IF ev.kind = "tick"
                            THEN [ev.arg EXCEPT !.ticks = @ + 1]
                            ELSE [since |-> ev, ticks |-> 1]))
    /\ UNCHANGED <<world, pref, activeCore, transport, imageSvc, zones, activeZoneId,
                   activeZone, detached, lastSeekSeconds, lastSeekUpdate,
                   activeLengthSeconds, lastKnownZoneState, player, keyToFilePath,
                   files, getImagePending, writePending, resultsPending, feed>>

Next ==
    \/ CorePaired
    \/ CoreUnpaired
    \/ ZonesSubscribed
    \/ ZonesChanged
    \/ ZonesUnsubscribed
    \/ Control
    \/ Seek
    \/ Position
    \/ TransportResult
    \/ GetImageFailed
    \/ GetImageDone
    \/ WriteFailed
    \/ WriteDone
    \/ FileRemoved
    \/ Tick

Spec == Init /\ [][Next]_vars

----------------------------------------------------------------------------
(* Vocabulary of the properties *)

\* the names a zone can be addressed by
NamesOf(zone) ==
    {zone.zone_id, zone.display_name}
    \cup {o.output_id : o \in Range(zone.outputs)}
    \cup {o.display_name : o \in Range(zone.outputs)}

Addresses(p, zone) ==
    p # "" /\ \E n \in NamesOf(zone) : n # "" /\ ToLowerCase(n) = ToLowerCase(p)

\* the id of the first zone of R with property Q, or Null
FirstId(R, Q(_)) ==
    LET I == {i \in 1..Len(R) : Q(R[i])}
    IN  IF I = {} THEN Null
        ELSE R[CHOOSE i \in I : \A j \in I : i <= j].zone_id

SpecifiedSelection(R, P, A) ==
    LET byPreference == FirstId(R, LAMBDA z : Addresses(P, z))
        byPlaying == FirstId(R, LAMBDA z : z.state = "playing")
    IN  CASE R = <<>> -> Null
          [] byPreference # Null -> byPreference
          [] byPlaying # Null -> byPlaying
          [] A \in Ids(R) -> A
          [] OTHER -> R[1].zone_id

IdleProjection ==
    /\ player.metadata.title = "Roon"
    /\ player.metadata.artist = <<"-">>
    /\ player.metadata.album = "-"
    /\ player.metadata.trackid = DefaultTrackId
    /\ \A id \in ZoneIds : player.metadata.trackid # ZoneTrackId(id)
    /\ player.playbackStatus = "Stopped"
    /\ ~player.canPlay /\ ~player.canPause /\ ~player.canSeek
    /\ ~player.canGoNext /\ ~player.canGoPrevious

ActiveRemoved ==
    /\ ev.kind = "Changed"
    /\ pre.activeZoneId # Null
    /\ pre.activeZoneId \in Range(ev.arg.zones_removed)

----------------------------------------------------------------------------
(* C1: whenever selection runs on a registry R with preference P and       *)
(* active id A, the zone it activates is the first zone of R addressed by  *)
(* P, else the first playing zone, else the zone A if still in R, else the *)
(* first zone; none only when R is empty.  The result is a function of     *)
(* R, P and A.                                                             *)
C1_SelectionOrder ==
    selRuns # <<>> =>
        /\ activeZoneId = SpecifiedSelection(zones, pref, selRuns[Len(selRuns)])
        /\ (activeZoneId = Null <=> zones = <<>>)

\* the preference wins over a playing zone that comes first
C1_Witness ==
    /\ selRuns # <<>>
    /\ Len(zones) = 2
    /\ zones[1].state = "playing"
    /\ Addresses(pref, zones[2]) /\ ~Addresses(pref, zones[1])
    /\ activeZoneId = zones[2].zone_id

(* C2: a Changed event that does not remove the active zone leaves it the  *)
(* active zone, whatever it adds, changes or seeks.                        *)
C2_Stickiness ==
    (/\ ev.kind = "Changed"
     /\ pre.activeZoneId # Null
     /\ pre.activeZoneId \notin Range(ev.arg.zones_removed))
        => activeZoneId = pre.activeZoneId

\* another zone starts playing while the active one is not playing
C2_Witness ==
    /\ ev.kind = "Changed"
    /\ pre.activeZoneId # Null
    /\ pre.activeZoneId \notin Range(ev.arg.zones_removed)
    /\ activeZoneId = pre.activeZoneId
    /\ activeZone.state # "playing"
    /\ \E z \in Range(ev.arg.zones_added) \cup Range(ev.arg.zones_changed) :
          z.zone_id # activeZoneId /\ z.state = "playing"

(* C3 as stated: after a Changed event that removes the active zone the    *)
(* selection is null and the projection is the idle default, whether or    *)
(* not other zones remain.                                                 *)
C3_IdleAfterRemoval ==
    ActiveRemoved => activeZoneId = Null /\ IdleProjection

(* C3 amended: after a Changed event that removes the active zone, the     *)
(* selection is null and the projection is the idle default if the         *)
(* registry is then empty; if zones remain, selection has run again and    *)
(* one of them is active.                                                  *)
C3_IdleAfterRemovalIfEmpty ==
    ActiveRemoved =>
        IF zones = <<>> THEN activeZoneId = Null /\ IdleProjection
        ELSE selRuns # <<>> /\ activeZoneId \in Ids(zones)

C3_Witness ==
    ActiveRemoved /\ zones = <<>> /\ activeZoneId = Null /\ IdleProjection

(* C4: with a preference configured, after every feed event the active     *)
(* zone is one the preference addresses whenever the registry holds such   *)
(* a zone.                                                                 *)
C4_PreferenceTargeted ==
    (/\ pref # ""
     /\ ev.kind \in {"Subscribed", "Changed"}
     /\ \E z \in Range(zones) : Addresses(pref, z))
        => /\ activeZoneId \in Ids(zones)
           /\ Addresses(pref, Get(zones, activeZoneId))

(* C5: for every image key at most one fetch is in flight at any time.     *)
FetchesInFlight(k) ==
    getImagePending[k] + Sum([e \in Exts |-> writePending[<<k, e>>]], Exts)

C5_OneFetchPerKey == \A k \in ImageKeys : FetchesInFlight(k) <= 1

(* The state the control claims speak of *)
ProgramState ==
    <<activeCore, transport, imageSvc, zones, activeZoneId, activeZone, detached,
      lastSeekSeconds, lastSeekUpdate, activeLengthSeconds, lastKnownZoneState,
      player, keyToFilePath>>

\* registry, active selection, seek anchor and projection
Exposed ==
    <<zones, activeZoneId, activeZone, lastSeekSeconds, lastSeekUpdate,
      activeLengthSeconds, lastKnownZoneState, player>>

Anchor ==
    <<activeZone, lastSeekSeconds, lastSeekUpdate, activeLengthSeconds,
      lastKnownZoneState>>

(* C6: a setPosition whose track id differs from the projected one makes   *)
(* no seek call and changes no state; one whose track id is the projected  *)
(* one, with an active zone, makes exactly one absolute seek to            *)
(* position / 1,000,000 seconds on the active zone.                        *)
C6_StalePositionRejected ==
    [][/\ (ev'.kind = "position" /\ ev'.arg.trackId # player.metadata.trackid)
            => calls' = <<>> /\ UNCHANGED ProgramState
       /\ (/\ ev'.kind = "position"
           /\ ev'.arg.trackId = player.metadata.trackid
           /\ activeZoneId # Null)
            => calls' = <<[op |-> "seek", zone_id |-> activeZoneId,
                           control |-> "absolute",
                           seconds |-> ev'.arg.position * SubMicro]>>]_vars

(* C7: without a remote session, or with an empty registry, a control      *)
(* action makes no outbound call, raises no error and leaves registry,     *)
(* active selection, seek anchor and projection unchanged.                 *)
C7_NoOpWithoutSessionOrZone ==
    [][(/\ ev'.kind \in {"control", "seek", "position"}
        /\ (~transport \/ zones = <<>>))
            => calls' = <<>> /\ ~threw' /\ UNCHANGED Exposed]_vars

(* C8: with a session and an active zone each transport-level action makes *)
(* exactly one control call, with the same verb, on the zone whose id is   *)
(* activeZoneId; a failure reported for it causes no further call and      *)
(* changes nothing of registry, selection, anchor and projection.          *)
C8_OneCallNoRetry ==
    [][/\ (ev'.kind = "control" /\ transport /\ activeZoneId # Null)
            => calls' = <<[op |-> "control", zone_id |-> activeZoneId,
                           control |-> ev'.arg, seconds |-> 0]>>
       /\ (ev'.kind = "result" /\ ev'.arg)
            => calls' = <<>> /\ UNCHANGED Exposed]_vars

C8_Witness ==
    /\ ev = Event("control", "playpause")
    /\ activeZoneId = "z2"
    /\ calls = <<[op |-> "control", zone_id |-> "z2", control |-> "playpause",
                  seconds |-> 0]>>

(* C9: getPosition is an integer >= 0 that never exceeds the known length  *)
(* in microseconds, and while the anchor is playing and nothing touches    *)
(* it, getPosition does not decrease as the clock advances.                *)
C9_PositionMonotoneBounded ==
    [][/\ getPosition >= 0
       /\ (activeZone # NullZone /\ IsNumber(activeLengthSeconds))
            => getPosition * SubMicro <= activeLengthSeconds
       /\ (/\ activeZone # NullZone
           /\ lastKnownZoneState = "playing"
           /\ UNCHANGED Anchor
           /\ now' >= now)
            => getPosition' >= getPosition]_vars

\* the clock has advanced the position up to the length
C9_Witness ==
    /\ ev.kind = "tick"
    /\ activeZone # NullZone
    /\ lastKnownZoneState = "playing"
    /\ now > lastSeekUpdate
    /\ IsNumber(activeLengthSeconds)
    /\ lastSeekSeconds < activeLengthSeconds
    /\ getPosition * SubMicro = activeLengthSeconds

(* C10: while the active zone is not playing getPosition is the anchor     *)
(* position clamped to [0, length], whatever the clock shows; with no      *)
(* active zone it is 0.                                                    *)
C10_PositionFrozen ==
    /\ activeZoneId = Null => getPosition = 0
    /\ (activeZoneId # Null /\ activeZone.state # "playing")
        => getPosition =
              Max(0, IF IsNumber(activeLengthSeconds)
                     THEN Min(lastSeekSeconds, activeLengthSeconds)
                     ELSE lastSeekSeconds) \div SubMicro

C10_Witness ==
    /\ ev.kind = "tick"
    /\ activeZoneId # Null
    /\ activeZone.state = "paused"
    /\ now > lastSeekUpdate
    /\ lastSeekSeconds > 0
    /\ getPosition = lastSeekSeconds \div SubMicro

(* The last handler that ran, and the clock ticks since it returned *)
LastEvent == IF ev.kind = "tick" THEN ev.arg.since ELSE ev

TicksSince == IF ev.kind = "tick" THEN ev.arg.ticks ELSE 0

WholeSeconds(x) == IsNumber(x) /\ x % UnitsPerSecond = 0

(* C11: with no preference, once a Subscribed event carrying the single    *)
(* zone z, playing at s of L whole seconds with s <= L, has been handled   *)
(* and t ticks of the clock have passed with no other event, z is active,  *)
(* the status is Playing, mpris:length is L x 1,000,000 and getPosition is *)
(* min(s + t, L) x 1,000,000 microseconds.                                 *)
C11_EndToEnd ==
    LET e == LastEvent
        z == e.arg[1]
        s == z.now_playing.seek_position
        L == z.now_playing.length
    IN  (/\ e.kind = "Subscribed"
         /\ pref = ""
         /\ Len(e.arg) = 1
         /\ z.state = "playing"
         /\ WholeSeconds(s) /\ WholeSeconds(L) /\ s <= L)
        => /\ activeZoneId = z.zone_id
           /\ player.playbackStatus = "Playing"
           /\ player.metadata.length = (L \div UnitsPerSecond) * MicrosPerSecond
           /\ getPosition =
                 Min(s + TicksSince * TickMillis * UnitsPerMilli, L) \div SubMicro

\* one tick after the snapshot the position has advanced and is not yet clamped
C11_Witness ==
    /\ ev.kind = "tick"
    /\ ev.arg.ticks = 1
    /\ ev.arg.since.kind = "Subscribed"
    /\ pref = ""
    /\ Len(ev.arg.since.arg) = 1
    /\ ev.arg.since.arg[1].state = "playing"
    /\ WholeSeconds(ev.arg.since.arg[1].now_playing.seek_position)
    /\ getPosition * SubMicro
         = ev.arg.since.arg[1].now_playing.seek_position
           + TickMillis * UnitsPerMilli
    /\ getPosition * SubMicro < activeLengthSeconds

(* The ids a list of zones carries *)
IdsOf(zoneList) == {z.zone_id : z \in Range(zoneList)}

(* C12: the sub-events of a Changed event are applied in the order         *)
(* removed, added, changed, seek-changed: a zone id both removed and added *)
(* is in the registry afterwards, as added; a seek update for an id that   *)
(* is not in the registry when it is applied creates no entry, emits no    *)
(* seeked notification and leaves the anchor of a surviving active zone    *)
(* alone (everything, when it is the only sub-event); and a seek update    *)
(* for a zone added by the same change-set patches the added entry.        *)
C12_SubEventOrder ==
    [][ev'.kind = "Changed" =>
        LET c == ev'.arg
            removed == Range(c.zones_removed)
            known == (Ids(zones) \ removed) \cup IdsOf(c.zones_added)
                        \cup IdsOf(c.zones_changed)
        IN  /\ \A z \in Range(c.zones_added) :
                  z.zone_id \in removed
                    => Has(zones', z.zone_id)
                       /\ (c.zones_seek_changed = <<>> /\ c.zones_changed = <<>>
                             => Get(zones', z.zone_id) = z)
            /\ \A u \in Range(c.zones_seek_changed) :
                  /\ u.zone_id \notin known
                       => /\ ~Has(zones', u.zone_id)
                          /\ seeked' = <<>>
                          /\ (activeZoneId # Null /\ activeZoneId \notin removed)
                                => UNCHANGED <<Anchor, activeZoneId>>
                          /\ (removed = {} /\ c.zones_added = <<>>
                              /\ c.zones_changed = <<>>)
                                => UNCHANGED Exposed
                  /\ u.zone_id \in IdsOf(c.zones_added)
                       => /\ Has(zones', u.zone_id)
                          /\ Get(zones', u.zone_id).now_playing.seek_position
                                = u.seek_position]_vars

\* the active zone was removed and the same change-set carries a seek update
\* for it
C12_Witness ==
    /\ ev.kind = "Changed"
    /\ pre.activeZoneId # Null
    /\ ev.arg.zones_removed = <<pre.activeZoneId>>
    /\ ev.arg.zones_seek_changed # <<>>
    /\ ev.arg.zones_seek_changed[1].zone_id = pre.activeZoneId
    /\ ~Has(zones, pre.activeZoneId)
    /\ seeked = <<>>

\* a zone was removed and added by one change-set
C12_ReAdded ==
    /\ ev.kind = "Changed"
    /\ ev.arg.zones_removed # <<>>
    /\ ev.arg.zones_removed[1] \in IdsOf(ev.arg.zones_added)
    /\ Has(zones, ev.arg.zones_removed[1])

(* C13: a failed fetch or file write for image key k records no cache      *)
(* entry and publishes no art URI; while k has no entry, a projection of   *)
(* an active zone showing k issues a new fetch of k; and a fetch whose     *)
(* file is written records the written file for k and publishes its URI.   *)
C13_FailureNotCached ==
    [][/\ ev'.kind \in {"get_image failed", "write failed"}
            => UNCHANGED <<keyToFilePath, files, player>>
       /\ (/\ ev'.kind = "Changed"
           /\ activeZoneId # Null
           /\ imageSvc)
            => \A z \in Range(ev'.arg.zones_changed) :
                  (/\ z.zone_id = activeZoneId
                   /\ z.now_playing.image_key # ""
                   /\ keyToFilePath[z.now_playing.image_key] = NoPath)
                    => requested' = <<z.now_playing.image_key>>
       /\ ev'.kind = "write done"
            => /\ keyToFilePath'[ev'.arg[1]] \in files'
               /\ keyToFilePath'[ev'.arg[1]] \in
                     {FilePath(ev'.arg[1], x) : x \in Exts}
               /\ player'.metadata.artUrl = FileUrl(keyToFilePath'[ev'.arg[1]])]_vars

\* the only fetch of the shown image has failed
C13_Witness ==
    /\ ev.kind \in {"get_image failed", "write failed"}
    /\ activeZone # NullZone
    /\ activeZone.now_playing.image_key = "k1"
    /\ InFlight(getImagePending, writePending) = 0
    /\ keyToFilePath["k1"] = NoPath
    /\ player.metadata.artUrl = NoArt

(* C14: once an Unsubscribed message, or the loss of the core, has been    *)
(* handled, in whatever state it arrived, the registry is empty, no zone   *)
(* is active, the projection is the idle one with status Stopped, and      *)
(* getPosition is 0.                                                       *)
C14_EmptySnapshot ==
    ev.kind \in {"Unsubscribed", "unpaired"}
        => /\ zones = <<>>
           /\ activeZoneId = Null
           /\ activeZone = NullZone
           /\ IdleProjection
           /\ player.metadata = IdleMetadata
           /\ getPosition = 0

\* the subscription ended while a playing zone was active
C14_Witness ==
    /\ ev.kind = "Unsubscribed"
    /\ pre.activeZoneId # Null
    /\ zones = <<>>
    /\ player.playbackStatus = "Stopped"

\* the core was lost while a zone was active
C14_Unpaired ==
    /\ ev.kind = "unpaired"
    /\ pre.activeZoneId # Null
    /\ zones = <<>>

(* The handlers of the zone subscription and of the loss of the core *)
FeedKinds == {"Subscribed", "Changed", "Unsubscribed", "unpaired"}

(* C15: after each feed event has been handled, no zone is active if and   *)
(* only if the registry is empty.                                          *)
C15_ActiveIffKnown ==
    ev.kind \in FeedKinds => (activeZoneId = Null <=> zones = <<>>)

\* the first zone arrives in a change-set, after an empty snapshot
C15_Witness ==
    /\ ev.kind = "Changed"
    /\ pre.activeZoneId = Null
    /\ ev.arg.zones_added # <<>>
    /\ ev.arg.zones_removed = <<>>
    /\ activeZoneId = ev.arg.zones_added[1].zone_id
    /\ Len(zones) = 1

(* C16: after each feed event has been handled, an active zone id is in    *)
(* the registry, activeZone is the registry's entry for it, and the        *)
(* projected status, lastKnownZoneState and the anchor's length are those  *)
(* of that entry.                                                          *)
C16_ActiveSnapshotCurrent ==
    (ev.kind \in FeedKinds /\ activeZoneId # Null)
        => /\ Has(zones, activeZoneId)
           /\ activeZone = Get(zones, activeZoneId)
           /\ player.playbackStatus
                 = mapPlaybackStatus(Get(zones, activeZoneId).state)
           /\ lastKnownZoneState = Get(zones, activeZoneId).state
           /\ activeLengthSeconds
                 = normaliseNumber(Get(zones, activeZoneId).now_playing.length)

(* A change-set that is one seek update of a zone in the registry *)
SeekOnly(c) ==
    /\ c.zones_removed = <<>> /\ c.zones_added = <<>> /\ c.zones_changed = <<>>
    /\ Len(c.zones_seek_changed) = 1
    /\ Has(zones, c.zones_seek_changed[1].zone_id)

Patched(zone, u) ==
    [zone EXCEPT !.now_playing.seek_position = u.seek_position,
                 !.queue_time_remaining = u.queue_time_remaining]

(* C17: a seek update of a zone in the registry changes that zone's seek   *)
(* position and queue time remaining and nothing else of the registry,     *)
(* and leaves the active selection and the projection alone; for the       *)
(* active zone the anchor becomes (the update's position or 0, now) and    *)
(* exactly one seeked notification of floor(position x 1,000,000) is       *)
(* emitted; for another zone the anchor is unchanged and none is emitted.  *)
C17_SeekDeltaFrame ==
    [][(ev'.kind = "Changed" /\ SeekOnly(ev'.arg)) =>
        LET u == ev'.arg.zones_seek_changed[1]
            position == IF IsNumber(u.seek_position) THEN u.seek_position ELSE 0
        IN  /\ Len(zones') = Len(zones)
            /\ \A i \in 1..Len(zones) :
                  zones'[i] = IF zones[i].zone_id = u.zone_id
                              THEN Patched(zones[i], u) ELSE zones[i]
            /\ UNCHANGED <<activeZoneId, player>>
            /\ IF u.zone_id = activeZoneId
               THEN /\ lastSeekSeconds' = position
                    /\ lastSeekUpdate' = now'
                    /\ seeked' = <<position \div SubMicro>>
                    /\ UNCHANGED <<lastKnownZoneState, activeLengthSeconds>>
               ELSE /\ UNCHANGED Anchor
                    /\ seeked' = <<>>]_vars

\* the active zone's position has become unknown after the clock has moved
C17_Witness ==
    /\ ev.kind = "Changed"
    /\ ev.arg.zones_removed = <<>> /\ ev.arg.zones_added = <<>>
    /\ ev.arg.zones_changed = <<>>
    /\ ev.arg.zones_seek_changed = <<SeekUpdate(activeZoneId, Undefined)>>
    /\ seeked = <<0>>
    /\ lastSeekSeconds = 0
    /\ lastSeekUpdate = now
    /\ now > 0

\* a zone that is not the active one has received a seek update
C17_OtherZone ==
    /\ ev.kind = "Changed"
    /\ ev.arg.zones_seek_changed # <<>>
    /\ ev.arg.zones_removed = <<>> /\ ev.arg.zones_added = <<>>
    /\ Has(zones, ev.arg.zones_seek_changed[1].zone_id)
    /\ ev.arg.zones_seek_changed[1].zone_id # activeZoneId
    /\ seeked = <<>>

(* C18: no handler cancels an art fetch: a fetch leaves the pipeline only  *)
(* by its own callbacks; and when its file has been written its URL is     *)
(* merged into the metadata published at that moment, whatever zone (or    *)
(* none) is active then, as an update of mpris:artUrl alone that comes     *)
(* after the projection that issued the fetch.                             *)
C18_NoCancellation ==
    [][/\ \A k \in ImageKeys :
            getImagePending'[k] < getImagePending[k]
                => /\ ev'.kind \in {"get_image failed", "get_image done"}
                   /\ getImagePending'[k] = getImagePending[k] - 1
       /\ \A f \in ImageKeys \X Exts :
            writePending'[f] < writePending[f]
                => /\ ev'.kind \in {"write failed", "write done"}
                   /\ writePending'[f] = writePending[f] - 1
       /\ ev'.kind = "write done"
            => /\ player' = [player EXCEPT !.metadata.artUrl =
                                FileUrl(keyToFilePath'[ev'.arg[1]])]
               /\ player'.metadata.artUrl # NoArt
               /\ UNCHANGED <<zones, activeZoneId, Anchor>>
       /\ requested' # <<>> => player'.metadata.artUrl = NoArt]_vars

\* the art of a zone no longer active is shown for a zone without art
C18_Witness ==
    /\ ev.kind = "write done"
    /\ activeZone # NullZone
    /\ activeZone.now_playing.image_key = ""
    /\ player.metadata.trackid = ZoneTrackId(activeZoneId)
    /\ player.metadata.artUrl # NoArt

\* the art of a zone no longer known is merged into the idle metadata
C18_IdleArt ==
    /\ ev.kind = "write done"
    /\ activeZoneId = Null
    /\ player.metadata.trackid = DefaultTrackId
    /\ player.metadata.artUrl # NoArt

(* C19: once an image key has a recorded file path, no step changes or     *)
(* removes that path.                                                      *)
C19_CacheEntryImmutable ==
    [][\A k \in ImageKeys :
          keyToFilePath[k] # NoPath => keyToFilePath'[k] = keyToFilePath[k]]_vars

(* C20: whenever the projected canSeek is true, a zone is active, its      *)
(* registry entry allows seeking and holds a numeric seek position.  It is *)
(* stated for the states in which activeZone is the registry's entry, so   *)
(* that a stale activeZone (C16) is not what refutes it.                   *)
C20_CanSeekHasPosition ==
    (/\ player.canSeek
     /\ activeZoneId # Null => /\ Has(zones, activeZoneId)
                               /\ activeZone = Get(zones, activeZoneId))
        => /\ activeZoneId # Null
           /\ Has(zones, activeZoneId)
           /\ Get(zones, activeZoneId).is_seek_allowed
           /\ IsNumber(normaliseNumber(
                 Get(zones, activeZoneId).now_playing.seek_position))

(* C21: while a core is paired the projected canControl is true, whether   *)
(* or not a zone is active; while none is paired it is false.              *)
C21_CanControlTracksSession ==
    /\ activeCore => player.canControl
    /\ ~activeCore => ~player.canControl

====
